---- MODULE Spec2Model ----
(***************************************************************************)
(* Model of the multiple-scattering solver facade of OPTIMET               *)
(* (src/Solver.cpp): assembly of the block system (S, Q) in the direct and *)
(* the indirect formulation, the solve overloads with their backend        *)
(* dispatch, update and the second-harmonic setter SH.                     *)
(*                                                                         *)
(* Scalars.  The program computes with complex doubles (t_complex).  The   *)
(* model computes in the prime field of integers modulo Modulus, so that   *)
(* sums, products and linear solves are exact and matrix products do not   *)
(* commute.  Rounding is not modelled.                                     *)
(*                                                                         *)
(* Collaborators.  Geometry, Scatterer, Excitation, Coupling and Result    *)
(* are defined outside src/Solver.cpp.  What they return is modelled by    *)
(* fixed entry functions of their arguments (TLocalEntry, CouplingDiag,    *)
(* ...) that are dense and not symmetric, so that no identity of the       *)
(* assembled system holds by accident of the data.                         *)
(*                                                                         *)
(* Indices are zero-based as in the source: a matrix is a record           *)
(* [rows, cols, e] with e[r][c] for r in 0..rows-1, c in 0..cols-1, and a  *)
(* vector is a record [n, e] with e[i] for i in 0..n-1.                    *)
(***************************************************************************)
EXTENDS Integers, Sequences, FiniteSets, TLC

(***************************************************************************)
(* Bounds of the model.                                                    *)
(***************************************************************************)
\* largest number of scatterers in a registry of lowest-degree scatterers
MaxScat == 3
\* largest number of scatterers in a registry of higher-degree scatterers
MaxScatHi == 1
\* number of excitation objects a caller can pass
NExc == 2
\* number of first-harmonic Result objects a caller can pass to SH
NRes == 1

\* the field the scalars are computed in (a prime)
Modulus == 5

\* harmonic degrees a scatterer or a solver can be given
Degrees == {1, 2}

\* contents of memory that was allocated and never written
Garbage == {0, Modulus - 1}

(***************************************************************************)
(* Field arithmetic and small helpers.                                     *)
(***************************************************************************)
Fd(x) == x % Modulus
Neg(x) == (Modulus - (x % Modulus)) % Modulus
Inv(a) == CHOOSE b \in 1..(Modulus - 1) : (a * b) % Modulus = 1
MinOf(T) == CHOOSE m \in T : \A o \in T : m <= o

\* sum of F(0) .. F(n-1) in the field
RECURSIVE SumTo(_, _)
SumTo(F(_), n) == IF n <= 0 THEN 0 ELSE Fd(F(n - 1) + SumTo(F, n - 1))

Vec(n, F(_)) == [n |-> n, e |-> [i \in 0..(n - 1) |-> F(i)]]
Mat(rows, cols, F(_, _)) ==
  [rows |-> rows, cols |-> cols,
   e |-> [r \in 0..(rows - 1) |-> [c \in 0..(cols - 1) |-> F(r, c)]]]
EmptyVec == Vec(0, LAMBDA i : 0)
EmptyMat == Mat(0, 0, LAMBDA r, c : 0)

(***************************************************************************)
(* Harmonics indexer.                                                      *)
(***************************************************************************)
\* HarmonicsIterator::max_flat: the number of (n, m) pairs with n <= nMax
max_flat(n) == n * (n + 2) + 1
\* the per-polarization block size, HarmonicsIterator::max_flat(nMax) - 1
flatMaxOf(n) == max_flat(n) - 1

(***************************************************************************)
(* The scatterer registry and the other collaborators.                     *)
(***************************************************************************)
Scat(pos, n, mat) == [vR |-> pos, nMax |-> n, elmag |-> mat]
UniformGeom(K, n) == [i \in 1..K |-> Scat(i * i, n, i)]
\* a registry whose scatterers do not share one degree
MixedGeoms == { <<Scat(1, 1, 1), Scat(4, 2, 2)>> }
Geoms == { UniformGeom(K, 1) : K \in 0..MaxScat }
           \cup { UniformGeom(K, 2) : K \in 1..MaxScatHi }
           \cup MixedGeoms
\* the background medium of every geometry
bground == 0

Excitations == { [id |-> x, omega |-> x, waveK |-> x + 1] : x \in 1..NExc }
\* Result pointers: 0 is nullptr
Results == 0..NRes

SameDegree(objs) == \A a, b \in 1..Len(objs) : objs[a].nMax = objs[b].nMax
DegreesOf(objs) == { objs[a].nMax : a \in 1..Len(objs) }
\* the degree a caller passes with a registry: the degree of one of its
\* scatterers (the degree the registry was built for)
NMaxFor(objs) == IF Len(objs) = 0 THEN Degrees ELSE DegreesOf(objs)

\* Geometry::scatterer_size(): the length of the global coefficient vector
RECURSIVE scatterer_size(_)
scatterer_size(objs) ==
  IF Len(objs) = 0 THEN 0
  ELSE 2 * flatMaxOf(objs[1].nMax) + scatterer_size(Tail(objs))

\* entry (r, c) of Scatterer::getTLocal for degree n against medium bg
TLocalEntry(sc, omega, bg, n, r, c) ==
  Fd((sc.elmag + 1) * (r + 1) + (omega + bg) * (c + 2) + r * r * c
     + sc.elmag * c * c + (IF r = c THEN 1 ELSE 0))
\* entry (r, c) of Coupling(d, k, n).diagonal and .offdiagonal
CouplingDiag(d, k, n, r, c) == Fd(d * (r + 1) + k * (c + 1) + r * c * c + 1)
CouplingOff(d, k, n, r, c) == Fd(d * (c + 2) + 2 * k * (r + 1) + r * r + c + 3)
\* entry idx of Excitation::getIncLocal(vR, ., n)
IncLocalEntry(inc, vR, n, idx) == Fd(inc.omega * (idx + 1) + vR * (idx + 2) + idx * idx + 1)
\* entry idx of Geometry::getIaux(omega, j, n, .)
IauxEntry(sc, omega, n, idx) == Fd(sc.elmag * (idx + 1) + omega + idx * idx + 2)
\* entry idx of Result::internal_coef of result r
InternalCoef(r, idx) == Fd(r * (idx + 1) + idx * idx + 3)
\* Geometry::setSourcesSingle followed by Geometry::getSourceLocal(i, ...):
\* entry idx of the local sources of object i, quadratic in the
\* first-harmonic internal coefficients
SourceLocalEntry(objs, i, inc, r, n, idx) ==
  LET c == InternalCoef(r, i * 2 * flatMaxOf(n) + idx)
  IN Fd(c * c + inc.omega * (idx + 1) + objs[i + 1].vR)

(***************************************************************************)
(* Direct formulation: Solver::populateDirect.                             *)
(***************************************************************************)
IdEntry(r, c) == IF r = c THEN 1 ELSE 0

\* entry (r, c) of the translation operator T_AB that populateDirect builds
\* from Coupling AB(objects[i].vR - objects[j].vR, waveK, nMax): the four
\* corners are the transposes of AB.diagonal and AB.offdiagonal
T_AB_Entry(objs, i, j, inc, n, r, c) ==
  LET f == flatMaxOf(n)
      d == objs[i + 1].vR - objs[j + 1].vR
  IN IF r < f /\ c < f THEN CouplingDiag(d, inc.waveK, n, c, r)
     ELSE IF r >= f /\ c >= f THEN CouplingDiag(d, inc.waveK, n, c - f, r - f)
     ELSE IF r < f THEN CouplingOff(d, inc.waveK, n, c - f, r)
     ELSE CouplingOff(d, inc.waveK, n, c, r - f)

\* variant: the product taken in the other order, T_AB * T
DirectBlockEntry_swapped(objs, i, j, inc, n, r, c) ==
  IF i = j THEN IdEntry(r, c)
  ELSE Neg(SumTo(LAMBDA k : T_AB_Entry(objs, i, j, inc, n, r, k)
                             * TLocalEntry(objs[i + 1], inc.omega, bground, n, k, c),
                 2 * flatMaxOf(n)))

\* entry (r, c) of the block that populateDirect writes at block (i, j) of S
DirectBlockEntry(objs, i, j, inc, n, r, c) ==
  IF i = j THEN IdEntry(r, c)
  ELSE Neg(SumTo(LAMBDA k : TLocalEntry(objs[i + 1], inc.omega, bground, n, r, k)
                             * T_AB_Entry(objs, i, j, inc, n, k, c),
                 2 * flatMaxOf(n)))

\* entry k of Q_local for object i: the local sources in the second-harmonic
\* case, the incoming excitation otherwise
QLocalEntry(objs, i, inc, res, n, k) ==
  IF res # 0 THEN SourceLocalEntry(objs, i, inc, res, n, k)
  ELSE IncLocalEntry(inc, objs[i + 1].vR, n, k)

\* entry r of the segment T * Q_local that populateDirect writes at block i of Q
DirectQEntry(objs, i, inc, res, n, r) ==
  SumTo(LAMBDA k : TLocalEntry(objs[i + 1], inc.omega, bground, n, r, k)
                     * QLocalEntry(objs, i, inc, res, n, k),
        2 * flatMaxOf(n))

\* The loops of populateDirect write the blocks (i, j), i, j < K, of width
\* 2 * flatMax at offsets i * 2 * flatMax, and the segments i of Q.  The
\* blocks are disjoint: DirectBlocks and DirectSegments are what the loops
\* write, laid out at those offsets.
DirectBlocks(objs, inc, n) ==
  LET w == 2 * flatMaxOf(n)
  IN Mat(w * Len(objs), w * Len(objs),
         LAMBDA R, C : DirectBlockEntry(objs, R \div w, C \div w, inc, n, R % w, C % w))
DirectSegments(objs, inc, res, n) ==
  LET w == 2 * flatMaxOf(n)
  IN Vec(w * Len(objs), LAMBDA R : DirectQEntry(objs, R \div w, inc, res, n, R % w))

\* the inputs of the model, for which the assembled blocks are tabulated
DirectKeys ==
  { k \in Geoms \X Excitations \X Degrees : k[3] \in NMaxFor(k[1]) }
DirectBlocksTable == [k \in DirectKeys |-> DirectBlocks(k[1], k[2], k[3])]
DirectSegmentsTable ==
  [k \in DirectKeys \X Results |-> DirectSegments(k[1][1], k[1][2], k[2], k[1][3])]
DirectBlocksOf(objs, inc, n) ==
  IF <<objs, inc, n>> \in DirectKeys THEN DirectBlocksTable[<<objs, inc, n>>]
  ELSE DirectBlocks(objs, inc, n)
DirectSegmentsOf(objs, inc, res, n) ==
  IF <<objs, inc, n>> \in DirectKeys /\ res \in Results
  THEN DirectSegmentsTable[<<<<objs, inc, n>>, res>>]
  ELSE DirectSegments(objs, inc, res, n)

\* populateDirect on the resized S0 and Q0: an entry of the result is the
\* entry of the block that covers it, or what S0 held there.  oob: some block
\* lies outside S0 or Q0.  sources: the solver's own geometry had its source
\* coefficients overwritten by setSourcesSingle.
populateDirect(S0, Q0, objs, inc, n, res) ==
  LET w == 2 * flatMaxOf(n)
      K == Len(objs)
  IN CHOOSE out \in
       { [S |-> Mat(S0.rows, S0.cols,
                    LAMBDA R, C : IF R < K * w /\ C < K * w THEN WS.e[R][C]
                                  ELSE S0.e[R][C]),
          Q |-> Vec(Q0.n, LAMBDA R : IF R < K * w THEN WQ.e[R] ELSE Q0.e[R]),
          oob |-> (K * w > S0.rows \/ K * w > Q0.n),
          sources |-> (res # 0)] :
           WS \in {DirectBlocksOf(objs, inc, n)},
           WQ \in {DirectSegmentsOf(objs, inc, res, n)} } : TRUE

(***************************************************************************)
(* Indirect formulation: preconditioned_scattering_matrix, source_vector,  *)
(* local_source_vector and Solver::populateIndirect.                       *)
(***************************************************************************)
\* entry (r, c) of the coupling block the iterator-range assembler writes for
\* row object i and column object j before it applies the factor
CouplingBlockEntry(objs, i, j, inc, n, r, c) ==
  LET f == flatMaxOf(n)
      d == objs[i + 1].vR - objs[j + 1].vR
  IN IF r < f /\ c < f THEN CouplingDiag(d, inc.waveK, n, c, r)
     ELSE IF r >= f /\ c >= f THEN CouplingDiag(d, inc.waveK, n, c - f, r - f)
     ELSE IF r < f THEN CouplingOff(d, inc.waveK, n, c - f, r)
     ELSE CouplingOff(d, inc.waveK, n, c, r - f)

\* entry (k, c) of factor = -iterj->getTLocal(incWave.omega, bground)
FactorEntry(objs, j, inc, bg, k, c) ==
  Neg(TLocalEntry(objs[j + 1], inc.omega, bg, objs[j + 1].nMax, k, c))

\* variant: the factor applied on the left, factor * block
RangeBlockEntry_left(objs, i, j, inc, bg, n, r, c) ==
  IF i = j THEN IdEntry(r, c)
  ELSE SumTo(LAMBDA k : FactorEntry(objs, j, inc, bg, r, k)
                          * CouplingBlockEntry(objs, i, j, inc, n, k, c),
             2 * flatMaxOf(n))

\* entry (r, c) of the block written for row object i and column object j:
\* the identity when the iterators are equal, otherwise the coupling block
\* after result.block(x, y, 2n, 2n) *= factor
RangeBlockEntry(objs, i, j, inc, bg, n, r, c) ==
  IF i = j THEN IdEntry(r, c)
  ELSE SumTo(LAMBDA k : CouplingBlockEntry(objs, i, j, inc, n, r, k)
                          * FactorEntry(objs, j, inc, bg, k, c),
             2 * flatMaxOf(n))

\* variant: the identity written where the row and column offsets within
\* the result are equal
preconditioned_scattering_matrix_range_local(objs, f0, f1, s0, s1, bg, inc, nread) ==
  LET w == 2 * flatMaxOf(nread)
  IN IF f0 = f1 \/ s0 = s1
     THEN Mat(w * (f1 - f0), w * (s1 - s0), LAMBDA R, C : 0)
     ELSE Mat(w * (f1 - f0), w * (s1 - s0),
              LAMBDA R, C : IF R \div w = C \div w THEN IdEntry(R % w, C % w)
                            ELSE RangeBlockEntry(objs, f0 + (R \div w), s0 + (C \div w),
                                                 inc, bg, nread, R % w, C % w))

\* the iterator-range assembler on rows [f0, f1) and columns [s0, s1) of the
\* registry, with nread the value it read as first->nMax
preconditioned_scattering_matrix_range(objs, f0, f1, s0, s1, bg, inc, nread) ==
  LET w == 2 * flatMaxOf(nread)
  IN IF f0 = f1 \/ s0 = s1
     THEN Mat(w * (f1 - f0), w * (s1 - s0), LAMBDA R, C : 0)
     ELSE Mat(w * (f1 - f0), w * (s1 - s0),
              LAMBDA R, C : RangeBlockEntry(objs, f0 + (R \div w), s0 + (C \div w),
                                            inc, bg, nread, R % w, C % w))

\* the overload on a vector of scatterers (no check of the degrees)
preconditioned_scattering_matrix_objects(objs, bg, inc) ==
  preconditioned_scattering_matrix_range(objs, 0, Len(objs), 0, Len(objs), bg, inc,
                                         objs[1].nMax)

\* the inputs of the model, for which the assembled matrix is tabulated
IndirectKeys == { k \in Geoms \X Excitations : Len(k[1]) > 0 /\ SameDegree(k[1]) }
IndirectTable ==
  [k \in IndirectKeys |-> preconditioned_scattering_matrix_objects(k[1], bground, k[2])]

\* the overload on a Geometry: err = "config" stands for the runtime_error
\* "All objects must have same number of harmonics"
preconditioned_scattering_matrix_geometry(objs, inc) ==
  IF Len(objs) = 0 THEN [err |-> "none", m |-> EmptyMat]
  ELSE IF ~SameDegree(objs) THEN [err |-> "config", m |-> EmptyMat]
  ELSE [err |-> "none",
        m |-> IF <<objs, inc>> \in IndirectKeys THEN IndirectTable[<<objs, inc>>]
              ELSE preconditioned_scattering_matrix_objects(objs, bground, inc)]

\* source_vector(first, last, incWave) on the whole registry
source_vector_range(objs, inc) ==
  IF Len(objs) = 0 THEN EmptyVec
  ELSE LET n == objs[1].nMax
           w == 2 * flatMaxOf(n)
       IN Vec(w * Len(objs),
              LAMBDA R : IncLocalEntry(inc, objs[(R \div w) + 1].vR, n, R % w))

source_vector_geometry(objs, inc) ==
  IF Len(objs) = 0 THEN [err |-> "none", v |-> EmptyVec]
  ELSE IF ~SameDegree(objs) THEN [err |-> "config", v |-> EmptyVec]
  ELSE [err |-> "none", v |-> source_vector_range(objs, inc)]

\* local_source_vector: the sources are set on a copy of the geometry
local_source_vector(objs, inc, res) ==
  IF Len(objs) = 0 THEN [err |-> "none", v |-> EmptyVec]
  ELSE IF ~SameDegree(objs) THEN [err |-> "config", v |-> EmptyVec]
  ELSE LET n == objs[1].nMax
           w == 2 * flatMaxOf(n)
       IN [err |-> "none",
           v |-> Vec(w * Len(objs),
                     LAMBDA R : SourceLocalEntry(objs, R \div w, inc, res, n, R % w))]

\* populateIndirect on the resized S0 and Q0: Q is assigned first, then S; an
\* exception leaves what was not yet assigned as it is
populateIndirect(S0, Q0, objs, inc, res) ==
  LET q == IF res # 0 THEN local_source_vector(objs, inc, res)
           ELSE source_vector_geometry(objs, inc)
  IN IF q.err # "none" THEN [err |-> q.err, S |-> S0, Q |-> Q0]
     ELSE LET m == preconditioned_scattering_matrix_geometry(objs, inc)
          IN IF m.err # "none" THEN [err |-> m.err, S |-> S0, Q |-> q.v]
             ELSE [err |-> "none", S |-> m.m, Q |-> q.v]

\* Eigen's resize: the contents survive when the number of coefficients does
\* not change; otherwise the storage is reallocated and never written (g)
ResizeMat(M, N, g) ==
  IF M.rows * M.cols = N * N THEN [M EXCEPT !.rows = N, !.cols = N]
  ELSE Mat(N, N, LAMBDA r, c : g)
ResizeVec(V, N, g) == IF V.n = N THEN V ELSE Vec(N, LAMBDA i : g)

(***************************************************************************)
(* The linear solve and what Solver::solve derives from it.                *)
(***************************************************************************)
\* one elimination step on the augmented rows A (n rows, columns 0..n):
\* row piv, scaled to pv, becomes row prow and is eliminated from the others
ElimStep(A, n, col, prow, piv, pv) ==
  [i \in 0..(n - 1) |->
     IF i = prow THEN pv
     ELSE LET src == IF i = piv THEN A[prow] ELSE A[i]
              f == src[col]
          IN IF f = 0 THEN src
             ELSE [j \in 0..n |-> Fd(src[j] + Neg(f) * pv[j])]]

\* reduced row echelon form of the augmented rows
RECURSIVE Reduce(_, _, _, _)
Reduce(A, n, col, prow) ==
  IF col >= n \/ prow >= n THEN A
  ELSE LET cand == {i \in prow..(n - 1) : A[i][col] # 0}
       IN IF cand = {} THEN Reduce(A, n, col + 1, prow)
          ELSE LET piv == MinOf(cand)
                   iv == Inv(A[piv][col])
               IN CHOOSE res \in
                    { Reduce(B, n, col + 1, prow + 1) :
                        B \in { ElimStep(A, n, col, prow, piv, pv) :
                                  pv \in {[j \in 0..n |-> Fd(A[piv][j] * iv)]} } } : TRUE

LeadCol(row, n) ==
  IF \E j \in 0..(n - 1) : row[j] # 0 THEN MinOf({j \in 0..(n - 1) : row[j] # 0}) ELSE n

\* the solution of A x = b: the unique one when A is regular; for a
\* rank-deficient A the solution whose free components are zero
LinearSolution(A, b) ==
  LET n == A.rows
      aug == [i \in 0..(n - 1) |-> [j \in 0..n |-> IF j < n THEN A.e[i][j] ELSE b.e[i]]]
  IN CHOOSE x \in
       { Vec(n, LAMBDA c : IF \E i \in 0..(n - 1) : LeadCol(R[i], n) = c
                           THEN R[CHOOSE i \in 0..(n - 1) : LeadCol(R[i], n) = c][n]
                           ELSE 0) :
           R \in {Reduce(aug, n, 0, 0)} } : TRUE

\* the systems assembled from the inputs of the model, for which the
\* solution is tabulated
FreshSystems ==
  { [A |-> DirectBlocksOf(k[1], k[2], k[3]), b |-> DirectSegmentsOf(k[1], k[2], r, k[3])] :
      k \in {d \in DirectKeys : SameDegree(d[1])}, r \in Results }
  \cup
  { [A |-> IndirectTable[k],
     b |-> IF r # 0 THEN local_source_vector(k[1], k[2], r).v
           ELSE source_vector_range(k[1], k[2])] :
      k \in IndirectKeys, r \in Results }
SolutionTable == [s \in FreshSystems |-> LinearSolution(s.A, s.b)]
SolutionOf(A, b) ==
  IF [A |-> A, b |-> b] \in FreshSystems THEN SolutionTable[[A |-> A, b |-> b]]
  ELSE LinearSolution(A, b)

\* A.colPivHouseholderQr().solve(b): the decomposition works on a copy of A
colPivHouseholderQr_solve(A, b) ==
  [A |-> A, b |-> b, x |-> SolutionOf(A, b), status |-> 0]
\* variant: the right-hand side overwritten with the solution, as a LAPACK
\* driver working in place does
general_linear_system_inplace(A, b, st) ==
  [A |-> A, b |-> SolutionOf(A, b), x |-> SolutionOf(A, b), status |-> st]
\* scalapack::general_linear_system(A, b): A and b are taken by const
\* reference; st is the status the factorization reports
general_linear_system(A, b, st) ==
  [A |-> A, b |-> b, x |-> SolutionOf(A, b), status |-> st]
\* scalapack::gmres_linear_system(A, b, params, comm): st is the status the
\* Krylov iteration reports
gmres_linear_system(A, b, st) ==
  [A |-> A, b |-> b, x |-> SolutionOf(A, b), status |-> st]

Builds == {"belos", "mpi", "serial"}
SolverNames == {"unset", "scalapack", "eigen", "GMRES"}
\* variant: the dense factorization as the default of the "Solver" entry
SolverParameter_eigen(name) == IF name = "unset" THEN "eigen" ELSE name

\* belos_parameters()->get<std::string>("Solver", "scalapack")
SolverParameter(name) == IF name = "unset" THEN "scalapack" ELSE name

\* the backend Solver::solveLinearSystem dispatches to, by build
BackendOf(bld, name, gsize) ==
  IF bld = "belos"
  THEN IF SolverParameter(name) # "eigen"
       THEN IF SolverParameter(name) # "scalapack" THEN "gmres" ELSE "scalapack"
       ELSE "eigen"
  ELSE IF bld = "mpi"
  THEN IF gsize > 1 THEN "scalapack" ELSE "eigen"
  ELSE "eigen"

\* variant: a backend that reports a failure is followed by the dense
\* factorization
solveLinearSystem_fallback(bld, name, gsize, A, b, st) ==
  LET be == BackendOf(bld, name, gsize)
      r == IF be = "eigen" THEN colPivHouseholderQr_solve(A, b)
           ELSE IF be = "gmres" THEN gmres_linear_system(A, b, st)
           ELSE general_linear_system(A, b, st)
  IN IF r.status # 0
     THEN [A |-> r.A, b |-> r.b, x |-> colPivHouseholderQr_solve(A, b).x,
           calls |-> << <<be, r.status>>, <<"eigen", 0>> >>, thrown |-> FALSE]
     ELSE [A |-> r.A, b |-> r.b, x |-> r.x, calls |-> << <<be, r.status>> >>,
           thrown |-> FALSE]

\* Solver::solveLinearSystem: calls records the backends invoked, thrown the
\* runtime_error on a non-zero status
solveLinearSystem(bld, name, gsize, A, b, st) ==
  LET be == BackendOf(bld, name, gsize)
      r == IF be = "eigen" THEN colPivHouseholderQr_solve(A, b)
           ELSE IF be = "gmres" THEN gmres_linear_system(A, b, st)
           ELSE general_linear_system(A, b, st)
  IN [A |-> r.A, b |-> r.b, x |-> r.x, calls |-> << <<be, r.status>> >>,
      thrown |-> (r.status # 0)]

\* variant: the scattered vector returned as solved, without the local
\* operators applied
convertIndirect_unconverted(objs, inc, n, X, g) ==
  [v |-> X, oob |-> FALSE]

\* Solver::convertIndirect; g stands for what a read past the end of
\* scattered returns
convertIndirect(objs, inc, n, X, g) ==
  LET w == 2 * flatMaxOf(n)
      K == Len(objs)
  IN [v |-> Vec(w * K,
                LAMBDA R : SumTo(LAMBDA k :
                                   TLocalEntry(objs[(R \div w) + 1], inc.omega, bground, n,
                                               R % w, k)
                                   * (IF (R \div w) * w + k < X.n
                                      THEN X.e[(R \div w) * w + k] ELSE g),
                                 w)),
      oob |-> (w * K > X.n)]

\* Solver::solveInternal; g stands for the entries of result that getIaux
\* never writes
solveInternal(objs, inc, n, X, g) ==
  LET w == 2 * flatMaxOf(n)
      K == Len(objs)
  IN [v |-> Vec(X.n,
                LAMBDA R : Fd((IF R < K * w
                               THEN IauxEntry(objs[(R \div w) + 1], inc.omega, n, R % w)
                               ELSE g) * X.e[R])),
      oob |-> (w * K > X.n)]

\* what follows the linear solve in both solve overloads
AfterSolve(method, objs, inc, n, x, g) ==
  IF method = "indirect"
  THEN CHOOSE res \in
         { [X_sca |-> c.v, X_int |-> solveInternal(objs, inc, n, c.v, g).v,
            oob |-> (c.oob \/ solveInternal(objs, inc, n, c.v, g).oob)] :
             c \in {convertIndirect(objs, inc, n, x, g)} } : TRUE
  ELSE [X_sca |-> x, X_int |-> solveInternal(objs, inc, n, x, g).v,
        oob |-> solveInternal(objs, inc, n, x, g).oob]

\* variant: the linear solve attempted whatever the context
solve_unchecked(ctxOk, bld, name, gsize, method, objs, inc, n, A, b, Xs0, Xi0, st, g) ==
  CHOOSE res \in
    { IF r.thrown
      THEN [outcome |-> "backend_error", X_sca |-> Xs0, X_int |-> Xi0, A |-> r.A,
            b |-> r.b, calls |-> r.calls, oob |-> FALSE]
      ELSE CHOOSE res2 \in
             { [outcome |-> "ok", X_sca |-> a.X_sca, X_int |-> a.X_int, A |-> r.A,
                b |-> r.b, calls |-> r.calls, oob |-> a.oob] :
                 a \in {AfterSolve(method, objs, inc, n, r.x, g)} } : TRUE :
        r \in {solveLinearSystem(bld, name, gsize, A, b, st)} } : TRUE

\* variant: the solution of the Krylov solver taken as the scattered
\* coefficients, without the conversion of the indirect formulation
solve_krylov_raw(ctxOk, bld, name, gsize, method, objs, inc, n, A, b, Xs0, Xi0, st, g) ==
  IF ~ctxOk
  THEN [outcome |-> "ctx_error", X_sca |-> Xs0, X_int |-> Xi0, A |-> A, b |-> b,
        calls |-> <<>>, oob |-> FALSE]
  ELSE solve_unchecked(ctxOk, bld, name, gsize,
                       IF BackendOf(bld, name, gsize) = "gmres" THEN "direct" ELSE method,
                       objs, inc, n, A, b, Xs0, Xi0, st, g)

\* Solver::solve(X_sca_, X_int_) on a process whose context validity is ctxOk
solve(ctxOk, bld, name, gsize, method, objs, inc, n, A, b, Xs0, Xi0, st, g) ==
  IF ~ctxOk
  THEN [outcome |-> "ctx_error", X_sca |-> Xs0, X_int |-> Xi0, A |-> A, b |-> b,
        calls |-> <<>>, oob |-> FALSE]
  ELSE CHOOSE res \in
    { IF r.thrown
      THEN [outcome |-> "backend_error", X_sca |-> Xs0, X_int |-> Xi0, A |-> r.A,
            b |-> r.b, calls |-> r.calls, oob |-> FALSE]
      ELSE CHOOSE res2 \in
             { [outcome |-> "ok", X_sca |-> a.X_sca, X_int |-> a.X_int, A |-> r.A,
                b |-> r.b, calls |-> r.calls, oob |-> a.oob] :
                 a \in {AfterSolve(method, objs, inc, n, r.x, g)} } : TRUE :
        r \in {solveLinearSystem(bld, name, gsize, A, b, st)} } : TRUE

\* Solver::populate
populate(S0, Q0, objs, inc, n, res, method, g) ==
  LET N == scatterer_size(objs)
  IN CHOOSE out \in
       { IF method = "indirect"
         THEN LET r == populateIndirect(S1, Q1, objs, inc, res)
              IN [err |-> r.err, S |-> r.S, Q |-> r.Q, oob |-> FALSE, sources |-> FALSE]
         ELSE LET r == populateDirect(S1, Q1, objs, inc, n, res)
              IN [err |-> "none", S |-> r.S, Q |-> r.Q, oob |-> r.oob,
                  sources |-> r.sources] :
           S1 \in {ResizeMat(S0, N, g)}, Q1 \in {ResizeVec(Q0, N, g)} } : TRUE

(***************************************************************************)
(* State.                                                                  *)
(***************************************************************************)
VARIABLES
  geometry,     \* Solver::geometry: the objects of the registry pointed to
  incWave,      \* Solver::incWave
  nMax,         \* Solver::nMax
  result_FF,    \* Solver::result_FF, 0 for nullptr
  solverMethod, \* Solver::solverMethod: "direct" or "indirect"
  S,            \* Solver::S
  Q,            \* Solver::Q
  build,        \* the build: OPTIMET_BELOS, OPTIMET_MPI or neither
  belosSolver,  \* the "Solver" entry of belos_parameters()
  ctxValid,     \* per process: context().is_valid()
  srcCoef,      \* the source coefficients of the registry pointed to: 0
                \* when never set, else the Result they were last set from
  X_sca,        \* per process: the X_sca_ argument of its latest solve call
  X_int,        \* per process: the X_int_ argument of its latest solve call
  pc,           \* per process: where it is in solve(X_sca_, X_int_, comm)
  outcome,      \* per process: how its latest solve call ended
  invoked,      \* per process: the backends its latest solve call invoked,
                \* each with the status it reported
  commStatus,   \* the status the collective backend reports in the running
                \* distributed solve
  phase,        \* "Populated", "Solved" or "Failed" (populate threw)
  lastOp,       \* the latest operation: [op, proc, arg, popRuns, err]
  fault,        \* "none", or "ub" once an access went out of bounds: what
                \* the process does from there on is undefined, and the
                \* model follows it no further
  rangeCall,    \* the latest direct call of the iterator-range assembler
  dist,         \* the running call of the distributed assembler: its grid,
                \* and what each process holds at each stage
  tca           \* a CachedCoAxialRecurrence: its cache and its latest request

solverVars == <<geometry, incWave, nMax, result_FF, solverMethod, S, Q>>
callVars == <<X_sca, X_int, pc, outcome, invoked, commStatus>>
vars == <<geometry, incWave, nMax, result_FF, solverMethod, S, Q, build, belosSolver,
          ctxValid, srcCoef, X_sca, X_int, pc, outcome, invoked, commStatus, phase,
          lastOp, fault, rangeCall, dist, tca>>

Procs == DOMAIN ctxValid
\* what a caller's output vector holds before the call
Unwritten == Vec(1, LAMBDA i : 0 - 1)
NoRangeCall == [op |-> "none"]
NoDist == [op |-> "none"]
NoTable == [op |-> "none"]

FaultOf(oob) == IF oob THEN "ub" ELSE "none"
GarbageIf(needed) == IF needed THEN Garbage ELSE {0}
\* resizing from length oldN reallocates, and populate leaves some of the
\* new storage unwritten
GarbageSurvives(objs, n, method, oldN) ==
  /\ scatterer_size(objs) # oldN
  /\ IF method = "indirect" THEN ~SameDegree(objs)
     ELSE 2 * flatMaxOf(n) * Len(objs) < scatterer_size(objs)

Op(op, runs, err) == [op |-> op, proc |-> 0, arg |-> 0, popRuns |-> runs, err |-> err]
OpBy(op, p, err) == [op |-> op, proc |-> p, arg |-> 0, popRuns |-> 0, err |-> err]

ResetCalls ==
  /\ X_sca' = [p \in Procs |-> Unwritten]
  /\ X_int' = [p \in Procs |-> Unwritten]
  /\ outcome' = [p \in Procs |-> "none"]
  /\ invoked' = [p \in Procs |-> <<>>]

(***************************************************************************)
(* Construction: Solver::Solver runs populate on empty S and Q.  A         *)
(* constructor that throws leaves no solver behind.                        *)
(***************************************************************************)
Construct(geoms, builds, contexts) ==
  \E g \in geoms, e \in Excitations, m \in {"direct", "indirect"},
     b \in builds, cv \in contexts :
    \E n \in NMaxFor(g) :
     \E gb \in GarbageIf(GarbageSurvives(g, n, m, 0)) :
      \E r \in {populate(EmptyMat, EmptyVec, g, e, n, 0, m, gb)} :
        /\ r.err = "none"
        /\ geometry = g /\ incWave = e /\ nMax = n /\ result_FF = 0
        /\ solverMethod = m /\ S = r.S /\ Q = r.Q
        /\ build = b /\ belosSolver = "unset" /\ ctxValid = cv
        /\ srcCoef = 0
        /\ X_sca = [p \in DOMAIN cv |-> Unwritten]
        /\ X_int = [p \in DOMAIN cv |-> Unwritten]
        /\ pc = [p \in DOMAIN cv |-> "idle"]
        /\ outcome = [p \in DOMAIN cv |-> "none"]
        /\ invoked = [p \in DOMAIN cv |-> <<>>]
        /\ commStatus = 0
        /\ phase = "Populated"
        /\ lastOp = Op("construct", 1, "none")
        /\ fault = FaultOf(r.oob)

Quiescent == fault = "none" /\ \A p \in Procs : pc[p] = "idle"

(***************************************************************************)
(* Solver::update                                                          *)
(***************************************************************************)
\* variant: the stored result pointer survives the update
update_keeps_SH(g, e, n) ==
  /\ Quiescent
  /\ \E gb \in GarbageIf(GarbageSurvives(g, n, solverMethod, Q.n)) :
       \E r \in {populate(S, Q, g, e, n, result_FF, solverMethod, gb)} :
         /\ geometry' = g /\ incWave' = e /\ nMax' = n /\ result_FF' = result_FF
         /\ S' = r.S /\ Q' = r.Q
         /\ srcCoef' = IF r.sources /\ Len(g) > 0 THEN result_FF
                      ELSE IF g = geometry THEN srcCoef ELSE 0
         /\ phase' = IF r.err = "none" THEN "Populated" ELSE "Failed"
         /\ lastOp' = [Op("update", 1, r.err) EXCEPT !.arg = result_FF]
         /\ fault' = FaultOf(r.oob)
  /\ ResetCalls
  /\ UNCHANGED <<solverMethod, build, belosSolver, ctxValid, pc, commStatus, rangeCall,
                 dist, tca>>

\* lastOp.arg records the result pointer the update discarded
update(g, e, n) ==
  /\ Quiescent
  /\ \E gb \in GarbageIf(GarbageSurvives(g, n, solverMethod, Q.n)) :
       \E r \in {populate(S, Q, g, e, n, 0, solverMethod, gb)} :
         /\ geometry' = g /\ incWave' = e /\ nMax' = n /\ result_FF' = 0
         /\ S' = r.S /\ Q' = r.Q
         /\ srcCoef' = IF g = geometry THEN srcCoef ELSE 0
         /\ phase' = IF r.err = "none" THEN "Populated" ELSE "Failed"
         /\ lastOp' = [Op("update", 1, r.err) EXCEPT !.arg = result_FF]
         /\ fault' = FaultOf(r.oob)
  /\ ResetCalls
  /\ UNCHANGED <<solverMethod, build, belosSolver, ctxValid, pc, commStatus, rangeCall,
                 dist, tca>>

(***************************************************************************)
(* Solver::SH                                                              *)
(***************************************************************************)
\* variant: the pointer is stored and the system is left as it was
SH_stored_only(r) ==
  /\ Quiescent
  /\ IF r # result_FF
     THEN /\ result_FF' = r
          /\ lastOp' = [Op("SH", 0, "none") EXCEPT !.arg = r]
          /\ UNCHANGED <<S, Q, srcCoef, phase, fault, X_sca, X_int, outcome, invoked>>
     ELSE UNCHANGED <<result_FF, S, Q, srcCoef, phase, lastOp, fault, X_sca, X_int,
                      outcome, invoked>>
  /\ UNCHANGED <<geometry, incWave, nMax, solverMethod, build, belosSolver, ctxValid, pc,
                 commStatus, rangeCall, dist, tca>>

SH(r) ==
  /\ Quiescent
  /\ IF r # result_FF
     THEN \E gb \in GarbageIf(GarbageSurvives(geometry, nMax, solverMethod, Q.n)) :
            \E o \in {populate(S, Q, geometry, incWave, nMax, r, solverMethod, gb)} :
              /\ result_FF' = r
              /\ S' = o.S /\ Q' = o.Q
              /\ srcCoef' = IF o.sources /\ Len(geometry) > 0 THEN r ELSE srcCoef
              /\ phase' = IF o.err = "none" THEN "Populated" ELSE "Failed"
              /\ lastOp' = [Op("SH", 1, o.err) EXCEPT !.arg = r]
              /\ fault' = FaultOf(o.oob)
              /\ ResetCalls
     ELSE UNCHANGED <<result_FF, S, Q, srcCoef, phase, lastOp, fault, X_sca, X_int,
                      outcome, invoked>>
  /\ UNCHANGED <<geometry, incWave, nMax, solverMethod, build, belosSolver, ctxValid, pc,
                 commStatus, rangeCall, dist, tca>>

(***************************************************************************)
(* Solver::solve(X_sca_, X_int_) called by process p with fresh outputs    *)
(***************************************************************************)
StatusesOf(be) == IF be = "eigen" THEN {0} ELSE {0, 1}
\* the system held does not fit the registry and degree the fields describe
Misfit == Q.n # 2 * flatMaxOf(nMax) * Len(geometry)

Solve(p) ==
  /\ Quiescent
  /\ \E st \in StatusesOf(BackendOf(build, belosSolver, Cardinality(Procs))),
        gb \in GarbageIf(Misfit) :
       \E r \in {solve(ctxValid[p], build, belosSolver, Cardinality(Procs), solverMethod,
                       geometry, incWave, nMax, S, Q, Unwritten, Unwritten, st, gb)} :
         /\ S' = r.A /\ Q' = r.b
         /\ X_sca' = [X_sca EXCEPT ![p] = r.X_sca]
         /\ X_int' = [X_int EXCEPT ![p] = r.X_int]
         /\ outcome' = [outcome EXCEPT ![p] = IF r.oob THEN "ub" ELSE r.outcome]
         /\ invoked' = [invoked EXCEPT ![p] = r.calls]
         /\ phase' = IF r.outcome = "ok" /\ phase = "Populated" THEN "Solved" ELSE phase
         /\ lastOp' = OpBy("solve", p, IF r.oob THEN "ub" ELSE r.outcome)
         /\ fault' = FaultOf(r.oob)
  /\ UNCHANGED <<geometry, incWave, nMax, result_FF, solverMethod, build, belosSolver,
                 ctxValid, srcCoef, pc, commStatus, rangeCall, dist, tca>>

(***************************************************************************)
(* The facade under one process with a valid context.                      *)
(***************************************************************************)
OneProcess == { [p \in 1..1 |-> TRUE] }

Init ==
  /\ Construct(Geoms, {"serial"}, OneProcess)
  /\ rangeCall = NoRangeCall /\ dist = NoDist /\ tca = NoTable

Next ==
  \/ \E g \in Geoms, e \in Excitations : \E n \in NMaxFor(g) : update(g, e, n)
  \/ \E r \in Results : SH(r)
  \/ \E p \in Procs : Solve(p)

Spec == Init /\ [][Next]_vars

(***************************************************************************)
(* The backends and the distributed solve.                                 *)
(***************************************************************************)
\* belos_parameters()->set("Solver", name), in the build that has them
SetSolver(name) ==
  /\ Quiescent
  /\ build = "belos"
  /\ name # belosSolver
  /\ belosSolver' = name
  /\ lastOp' = Op("setSolver", 0, "none")
  /\ UNCHANGED <<solverVars, build, ctxValid, srcCoef, callVars, phase, fault, rangeCall, dist, tca>>

\* process p enters Solver::solve(X_sca_, X_int_, comm) with fresh outputs
\* and reaches comm.split
CommCall(p) ==
  /\ fault = "none"
  /\ pc[p] = "idle"
  /\ pc' = [pc EXCEPT ![p] = "split"]
  /\ X_sca' = [X_sca EXCEPT ![p] = Unwritten]
  /\ X_int' = [X_int EXCEPT ![p] = Unwritten]
  /\ outcome' = [outcome EXCEPT ![p] = "running"]
  /\ invoked' = [invoked EXCEPT ![p] = <<>>]
  /\ lastOp' = OpBy("solveComm", p, "none")
  /\ UNCHANGED <<solverVars, build, belosSolver, ctxValid, srcCoef, commStatus, phase,
                 fault, rangeCall, dist, tca>>

\* comm.split(context().is_valid()) is collective: it returns once every
\* process of comm has called it.  The status the collective backend will
\* report to the processes in the context is drawn here.
CommSplit ==
  /\ \A p \in Procs : pc[p] = "split"
  /\ commStatus' \in StatusesOf(BackendOf(build, belosSolver, Cardinality(Procs)))
  /\ pc' = [p \in Procs |-> IF ctxValid[p] THEN "solve" ELSE "bcast_sca"]
  /\ lastOp' = OpBy("solveComm", 0, "none")
  /\ UNCHANGED <<solverVars, build, belosSolver, ctxValid, srcCoef, X_sca, X_int, outcome,
                 invoked, phase, fault, rangeCall, dist, tca>>

\* a process in the context runs lines 109-113
CommSolve(p) ==
  /\ pc[p] = "solve"
  /\ \E r \in {solve(TRUE, build, belosSolver, Cardinality(Procs), solverMethod, geometry,
                     incWave, nMax, S, Q, X_sca[p], X_int[p], commStatus, 0)} :
       /\ S' = r.A /\ Q' = r.b
       /\ X_sca' = [X_sca EXCEPT ![p] = r.X_sca]
       /\ X_int' = [X_int EXCEPT ![p] = r.X_int]
       /\ invoked' = [invoked EXCEPT ![p] = r.calls]
       /\ outcome' = [outcome EXCEPT ![p] = IF r.outcome = "ok" THEN "running"
                                           ELSE r.outcome]
       /\ pc' = [pc EXCEPT ![p] = IF r.outcome = "ok" THEN "bcast_sca" ELSE "idle"]
       /\ lastOp' = OpBy("solveComm", p, IF r.outcome = "ok" THEN "none" ELSE r.outcome)
  /\ UNCHANGED <<geometry, incWave, nMax, result_FF, solverMethod, build, belosSolver,
                 ctxValid, srcCoef, commStatus, phase, fault, rangeCall, dist, tca>>

\* the processes of the context hold the same solution; Root is the one
\* that sends it
Root == MinOf({p \in Procs : ctxValid[p]})

\* broadcast_to_out_of_context(X_sca_, context(), comm) is collective
CommBcastSca ==
  /\ \A p \in Procs : pc[p] = "bcast_sca"
  /\ X_sca' = [p \in Procs |-> IF ctxValid[p] THEN X_sca[p] ELSE X_sca[Root]]
  /\ pc' = [p \in Procs |-> "bcast_int"]
  /\ lastOp' = OpBy("solveComm", 0, "none")
  /\ UNCHANGED <<solverVars, build, belosSolver, ctxValid, srcCoef, X_int, outcome,
                 invoked, commStatus, phase, fault, rangeCall, dist, tca>>

\* broadcast_to_out_of_context(X_int_, context(), comm), then every process
\* returns
CommBcastInt ==
  /\ \A p \in Procs : pc[p] = "bcast_int"
  /\ X_int' = [p \in Procs |-> IF ctxValid[p] THEN X_int[p] ELSE X_int[Root]]
  /\ pc' = [p \in Procs |-> "idle"]
  /\ outcome' = [p \in Procs |-> "ok"]
  /\ phase' = IF phase = "Populated" THEN "Solved" ELSE phase
  /\ lastOp' = OpBy("solveComm", 0, "ok")
  /\ UNCHANGED <<solverVars, build, belosSolver, ctxValid, srcCoef, X_sca, invoked,
                 commStatus, fault, rangeCall, dist, tca>>

\* the process grids: up to MaxProcs processes, at least one of them in the
\* context; without MPI there is one process, in a trivially valid context
MaxProcs == 2
Contexts ==
  UNION { { cv \in [1..np -> BOOLEAN] : \E p \in 1..np : cv[p] } : np \in 1..MaxProcs }
GridsOf(b) == IF b = "serial" THEN OneProcess ELSE Contexts

CommGeoms == { UniformGeom(K, 1) : K \in 0..MaxScat }

InitComm ==
  /\ Construct(CommGeoms, Builds, Contexts)
  /\ ctxValid \in GridsOf(build)
  /\ incWave.id = 1
  /\ rangeCall = NoRangeCall /\ dist = NoDist /\ tca = NoTable

NextComm ==
  \/ \E name \in SolverNames \ {"unset"} : SetSolver(name)
  \/ \E p \in Procs : Solve(p)
  \/ \E p \in Procs : CommCall(p)
  \/ CommSplit
  \/ \E p \in Procs : CommSolve(p)
  \/ CommBcastSca
  \/ CommBcastInt

SpecComm == InitComm /\ [][NextComm]_vars

(***************************************************************************)
(* The iterator-range assembler called on ranges of a vector of            *)
(* scatterers.  Positions f0 <= f1 and s0 <= s1 stand for the iterators    *)
(* first, end_first, second and end_second; position Len(objs) is          *)
(* objects.end().                                                          *)
(***************************************************************************)
RangeGeoms ==
  { UniformGeom(K, 1) : K \in 0..MaxScat } \cup { UniformGeom(K, 2) : K \in 1..MaxScatHi }
RangeInputs ==
  UNION { { [objs |-> g, f0 |-> a, f1 |-> b, s0 |-> c, s1 |-> d] :
              a \in 0..Len(g), b \in 0..Len(g), c \in 0..Len(g), d \in 0..Len(g) } :
          g \in RangeGeoms }

\* first->nMax (line 233) is read before the ranges are compared (line 235).
\* When first is objects.end() the read is of no scatterer: the call may
\* crash, or go on with whatever value it read.
NMaxRead == {0} \cup Degrees
RangeOutcomes(in) ==
  IF in.f0 < Len(in.objs)
  THEN { [crash |-> FALSE, nread |-> in.objs[in.f0 + 1].nMax] }
  ELSE { [crash |-> TRUE, nread |-> 0] } \cup { [crash |-> FALSE, nread |-> n] : n \in NMaxRead }

CallRange ==
  /\ rangeCall.op = "pending"
  /\ \E o \in RangeOutcomes(rangeCall.in) :
       rangeCall' =
         [op |-> "done", in |-> rangeCall.in, crash |-> o.crash,
          ub |-> (rangeCall.in.f0 >= Len(rangeCall.in.objs)),
          m |-> IF o.crash THEN EmptyMat
                ELSE preconditioned_scattering_matrix_range(
                       rangeCall.in.objs, rangeCall.in.f0, rangeCall.in.f1,
                       rangeCall.in.s0, rangeCall.in.s1, bground, incWave, o.nread)]
  /\ UNCHANGED <<solverVars, build, belosSolver, ctxValid, srcCoef, callVars, phase, lastOp,
                 fault, dist, tca>>

InitRange ==
  /\ Construct({UniformGeom(0, 1)}, {"serial"}, OneProcess)
  /\ incWave.id = 1 /\ nMax = 1
  /\ \E in \in RangeInputs :
       /\ in.f0 <= in.f1 /\ in.s0 <= in.s1
       /\ rangeCall = [op |-> "pending", in |-> in]
  /\ dist = NoDist /\ tca = NoTable

NextRange ==
  \/ CallRange
  \/ \E p \in Procs : Solve(p)

SpecRange == InitRange /\ [][NextRange]_vars

(***************************************************************************)
(* The distributed assembler, preconditioned_scattering_matrix(geometry,   *)
(* incWave, context, blocks), called by every process of a process grid.   *)
(*                                                                         *)
(* scalapack::Context and scalapack::Matrix are defined outside src/.  A   *)
(* context is a grid [rows, cols] whose processes are numbered 0, 1, ...   *)
(* in the order of its rank map, column by column; a distributed matrix    *)
(* is laid out block-cyclically over the grid, and transfer_to moves the   *)
(* global entries from one layout to another.                              *)
(***************************************************************************)
\* largest registry passed to the distributed assembler
MaxDistScat == 8
\* largest number of processes of a grid
MaxGrid == 3

DistGeoms == { UniformGeom(K, 1) : K \in 0..MaxDistScat }
DistGrids ==
  { g \in [rows : 1..MaxGrid, cols : 1..MaxGrid] : g.rows * g.cols <= MaxGrid }
\* the block sizes of the layout that is returned
DistBlockings == { [rows |-> 4, cols |-> 5] }
DistInputs == [objs : DistGeoms, ctx : DistGrids, blocks : DistBlockings]

\* a cell of a scalapack::Matrix that nothing was assigned to
Unassigned == Modulus
Allocated(rows, cols) == Mat(rows, cols, LAMBDA r, c : Unassigned)

\* block-cyclic layout of n indices in blocks of nb over np processes: the
\* process that owns global index g, its local index there, the global index
\* of local index l of process ip, and the number of indices ip owns
OwnerOf(g, nb, np) == (g \div nb) % np
GlobalToLocal(g, nb, np) == (g \div (nb * np)) * nb + (g % nb)
LocalToGlobal(l, nb, ip, np) == ((l \div nb) * np + ip) * nb + (l % nb)
NumRoC(n, nb, ip, np) == Cardinality({ g \in 0..(n - 1) : OwnerOf(g, nb, np) = ip })

\* grid position of process p of context ctx
RowOf(ctx, p) == p % ctx.rows
ColOf(ctx, p) == p \div ctx.rows
ProcsOf(ctx) == 0..(ctx.rows * ctx.cols - 1)

\* the local part, on process p, of the global matrix M laid out over ctx
\* in blocks of br x bc
LocalPart(M, ctx, br, bc, p) ==
  Mat(NumRoC(M.rows, br, RowOf(ctx, p), ctx.rows),
      NumRoC(M.cols, bc, ColOf(ctx, p), ctx.cols),
      LAMBDA r, c : M.e[LocalToGlobal(r, br, RowOf(ctx, p), ctx.rows)]
                       [LocalToGlobal(c, bc, ColOf(ctx, p), ctx.cols)])

\* the global rows x cols matrix whose local parts, over ctx in blocks of
\* br x bc, are parts[p]
GlobalOf(parts, rows, cols, ctx, br, bc) ==
  Mat(rows, cols,
      LAMBDA R, C : parts[OwnerOf(C, bc, ctx.cols) * ctx.rows + OwnerOf(R, br, ctx.rows)]
                      .e[GlobalToLocal(R, br, ctx.rows)][GlobalToLocal(C, bc, ctx.cols)])

\* scalapack::Matrix::transfer_to: the local parts, in the target layout, of
\* the matrix held in the source layout
transfer_to(parts, rows, cols, ctx, br, bc, ctx2, br2, bc2) ==
  CHOOSE out \in
    { [p \in ProcsOf(ctx2) |-> LocalPart(M, ctx2, br2, bc2, p)] :
        M \in {GlobalOf(parts, rows, cols, ctx, br, bc)} } : TRUE

\* lines 287-293: the 1 x P grid of the first min(context.size(), nobj)
\* processes, and what process p computes from it
LinearShare(K, G, p) ==
  LET P == IF G < K THEN G ELSE K
  IN [P |-> P, valid |-> (p < P),
      remainder |-> IF p < P THEN K % P ELSE 0,
      nloc |-> IF p < P THEN K \div P ELSE 0]

\* lines 305-306: the columns process p of the linear grid assembles first
LocalColumns(K, G, p) ==
  [s0 |-> LinearShare(K, G, p).nloc * p, s1 |-> LinearShare(K, G, p).nloc * (1 + p)]

\* variant: every process of the remainder grid takes the first leftover
RemainderColumn_first(K, G, p) ==
  LinearShare(K, G, p).nloc * LinearShare(K, G, p).P

\* lines 316-317: the leftover column process p of the remainder grid
\* assembles
RemainderColumn(K, G, p) ==
  LinearShare(K, G, p).nloc * LinearShare(K, G, p).P + p

\* M with its leftmost columns replaced by those of W
leftCols(M, W) ==
  [M EXCEPT !.e = [r \in 0..(M.rows - 1) |->
                     [c \in 0..(M.cols - 1) |-> IF c < W.cols THEN W.e[r][c] ELSE M.e[r][c]]]]
\* M with its rightmost columns replaced by those of W
rightCols(M, W) ==
  [M EXCEPT !.e = [r \in 0..(M.rows - 1) |->
                     [c \in 0..(M.cols - 1) |->
                        IF c >= M.cols - W.cols THEN W.e[r][c - (M.cols - W.cols)]
                        ELSE M.e[r][c]]]]

Range(a, b) == [i \in 1..(b - a) |-> a + i - 1]
NoDistParts(ctx) == [p \in ProcsOf(ctx) |-> EmptyMat]

DistK == Len(dist.in.objs)
DistG == dist.in.ctx.rows * dist.in.ctx.cols
DistW == 2 * flatMaxOf(dist.in.objs[1].nMax)
DistProcs == ProcsOf(dist.in.ctx)

\* lines 284-307 on process p: the early return on an empty registry;
\* otherwise the linear grid, the allocation of linear_matrix, the three
\* assertions and the assembly of the process's own columns
DistEnter(p) ==
  /\ dist.op = "run" /\ p \in DistProcs /\ dist.stage[p] = "enter"
  /\ IF DistK = 0
     THEN dist' = [dist EXCEPT !.stage[p] = "done", !.final[p] = EmptyMat]
     ELSE LET sh == LinearShare(DistK, DistG, p)
              cols == LocalColumns(DistK, DistG, p)
              N == DistK * DistW
          IN IF ~sh.valid
             THEN dist' = [dist EXCEPT !.stage[p] = "redistribute"]
             ELSE \E A \in {preconditioned_scattering_matrix_range(
                              dist.in.objs, 0, DistK, cols.s0, cols.s1, bground, incWave,
                              dist.in.objs[1].nMax)} :
                    dist' =
                      [dist EXCEPT
                         !.asserted = @ /\ DistK > cols.s0 /\ DistK >= cols.s1
                                        /\ sh.nloc * DistW > 0,
                         !.ub = @ \/ cols.s1 > DistK
                                  \/ A.cols > NumRoC(N, sh.nloc * DistW, p, sh.P),
                         !.linear[p] =
                            leftCols(Allocated(N, NumRoC(N, sh.nloc * DistW, p, sh.P)), A),
                         !.built[p] = Range(cols.s0, cols.s1),
                         !.stage[p] = IF sh.remainder > 0 THEN "remainder"
                                      ELSE "redistribute"]
  /\ UNCHANGED <<solverVars, build, belosSolver, ctxValid, srcCoef, callVars, phase, lastOp,
                 fault, rangeCall, tca>>

\* lines 309-318 on a process of the linear grid, when there is a
\* remainder: a process of the remainder grid assembles one leftover column
DistRemainder(p) ==
  /\ dist.op = "run" /\ p \in DistProcs /\ dist.stage[p] = "remainder"
  /\ LET sh == LinearShare(DistK, DistG, p)
         col == RemainderColumn(DistK, DistG, p)
     IN IF p < sh.remainder
        THEN \E A \in {preconditioned_scattering_matrix_range(
                         dist.in.objs, 0, DistK, col, col + 1, bground, incWave,
                         dist.in.objs[1].nMax)} :
               dist' = [dist EXCEPT !.rem[p] = A,
                                    !.ub = @ \/ col + 1 > DistK,
                                    !.built[p] = @ \o <<col>>,
                                    !.stage[p] = "transfer"]
        ELSE dist' = [dist EXCEPT !.stage[p] = "transfer"]
  /\ UNCHANGED <<solverVars, build, belosSolver, ctxValid, srcCoef, callVars, phase, lastOp,
                 fault, rangeCall, tca>>

\* lines 320-324: remainder_matrix.transfer_to(remainder_context,
\* transfered) is collective over the linear grid; each process of the
\* remainder grid then copies what it received into its rightmost columns
DistTransfer ==
  /\ dist.op = "run" /\ DistK > 0
  /\ LET sh == LinearShare(DistK, DistG, 0)
         N == DistK * DistW
         rctx == [rows |-> 1, cols |-> sh.remainder]
     IN /\ sh.remainder > 0
        /\ \A p \in 0..(sh.P - 1) : dist.stage[p] = "transfer"
        /\ \E T \in {transfer_to(dist.rem, N, sh.remainder * DistW, rctx, N, DistW,
                                 rctx, N, sh.nloc * DistW)} :
             dist' =
               [dist EXCEPT
                  !.linear = [p \in DistProcs |->
                                IF p < sh.remainder /\ T[p].cols > 0
                                THEN rightCols(dist.linear[p], T[p]) ELSE dist.linear[p]],
                  !.ub = @ \/ \E p \in 0..(sh.remainder - 1) :
                                T[p].cols > dist.linear[p].cols,
                  !.stage = [p \in DistProcs |->
                               IF p < sh.P THEN "redistribute" ELSE dist.stage[p]]]
  /\ UNCHANGED <<solverVars, build, belosSolver, ctxValid, srcCoef, callVars, phase, lastOp,
                 fault, rangeCall, tca>>

\* lines 327-329: linear_matrix.transfer_to(distributed_matrix) is
\* collective over context; every process returns its local part
DistRedistribute ==
  /\ dist.op = "run" /\ DistK > 0
  /\ \A p \in DistProcs : dist.stage[p] = "redistribute"
  /\ LET sh == LinearShare(DistK, DistG, 0)
         N == DistK * DistW
     IN dist' =
          [dist EXCEPT
             !.final = transfer_to(dist.linear, N, N, [rows |-> 1, cols |-> sh.P], N,
                                   sh.nloc * DistW, dist.in.ctx, dist.in.blocks.rows,
                                   dist.in.blocks.cols),
             !.stage = [p \in DistProcs |-> "done"]]
  /\ UNCHANGED <<solverVars, build, belosSolver, ctxValid, srcCoef, callVars, phase, lastOp,
                 fault, rangeCall, tca>>

InitDist ==
  /\ Construct({UniformGeom(0, 1)}, {"mpi"}, OneProcess)
  /\ nMax = 1
  /\ rangeCall = NoRangeCall /\ tca = NoTable
  /\ \E in \in DistInputs :
       dist = [op |-> "run", in |-> in,
               stage |-> [p \in ProcsOf(in.ctx) |-> "enter"],
               linear |-> NoDistParts(in.ctx), rem |-> NoDistParts(in.ctx),
               final |-> NoDistParts(in.ctx),
               built |-> [p \in ProcsOf(in.ctx) |-> <<>>],
               asserted |-> TRUE, ub |-> FALSE]

NextDist ==
  \/ \E p \in DistProcs : DistEnter(p)
  \/ \E p \in DistProcs : DistRemainder(p)
  \/ DistTransfer
  \/ DistRedistribute

SpecDist == InitDist /\ [][NextDist]_vars

(***************************************************************************)
(* The cached table of co-axial translation coefficients,                  *)
(* CachedCoAxialRecurrence, as src/unnamed/part_001 exercises it.  The     *)
(* class itself and coefficient::a, coefficient::b are defined outside     *)
(* src/: the table is modelled from its description, with the recurrences  *)
(* solved as the tests solve them.  The coefficients and the seeds         *)
(* T(0, 0, l) are fixed field elements with the zeros of the originals:    *)
(* a(n, m) = 0 unless n >= |m|, and b(n, m) = 0 unless -n <= m < n - 1.    *)
(***************************************************************************)
\* largest degree n or l of a request
MaxCoaxDeg == 2
\* largest number of requests made of one table
MaxRequests == 3

Abs(x) == IF x < 0 THEN 0 - x ELSE x
Div(x, y) == Fd(x * Inv(y))

\* coefficient::a(n, m) and coefficient::b(n, m)
coefficient_a(n, m) ==
  IF n < 0 \/ Abs(m) > n THEN 0 ELSE 1 + ((n + 2 * Abs(m)) % (Modulus - 1))
coefficient_b(n, m) ==
  IF n < 0 \/ Abs(m) > n \/ (m >= 0 /\ m >= n - 1) THEN 0
  ELSE IF m >= 0 THEN 1 + ((2 * n + m) % (Modulus - 1))
  ELSE Neg(1 + ((2 * n + m + 1) % (Modulus - 1)))

\* the closed-form seed T(0, 0, l)
initial(l) == 1 + ((l * l + l) % (Modulus - 1))

NoCache == [t \in {} |-> 0]

\* variant: the table keeps the entry written last and nothing else
Store_latest(cache, n, m, l, v) == [t \in {<<n, m, l>>} |-> v]

Store(cache, n, m, l, v) ==
  [t \in DOMAIN cache \cup {<<n, m, l>>} |-> IF t = <<n, m, l>> THEN v ELSE cache[t]]

\* variant: the recurrence in n with the two terms in l exchanged
zonal_exchanged(n, m, l, below, up, down) ==
  Div(Fd(coefficient_a(n - 2, m) * below + coefficient_a(l, m) * down
         + Neg(coefficient_a(l - 1, m) * up)),
      coefficient_a(n - 1, m))

\* the recurrence in n solved for T(n, m, l), n > m >= 0, from
\* below = T(n-2, m, l), up = T(n-1, m, l+1) and down = T(n-1, m, l-1)
zonal(n, m, l, below, up, down) ==
  Div(Fd(coefficient_a(n - 2, m) * below + coefficient_a(l - 1, m) * down
         + Neg(coefficient_a(l, m) * up)),
      coefficient_a(n - 1, m))

\* the recurrence in m solved for T(m, m, l), m > 0, from
\* down = T(m-1, m-1, l-1) and up = T(m-1, m-1, l+1)
sectorial(m, l, down, up) ==
  Div(Fd(coefficient_b(l, 0 - m) * down + Neg(coefficient_b(l + 1, m - 1) * up)),
      coefficient_b(m, 0 - m))

\* the triples that are zero by definition
OutOfRange(n, m, l) == n < 0 \/ l < 0 \/ Abs(m) > n \/ Abs(m) > l

\* variant: the zero is entered in the cache
ZeroTerm_cached(cache, n, m, l) ==
  [v |-> 0, cache |-> Store(cache, n, m, l, 0), asked |-> 0]

\* what a request for a triple that is zero by definition returns
ZeroTerm(cache, n, m, l) == [v |-> 0, cache |-> cache, asked |-> 0]

\* the triples the value of <<n, m, l>>, 0 <= m <= n, is computed from
Dependencies(n, m, l) ==
  IF n = 0 THEN <<>>
  ELSE IF n = m THEN << <<m - 1, m - 1, l - 1>>, <<m - 1, m - 1, l + 1>> >>
  ELSE << <<n - 2, m, l>>, <<n - 1, m, l + 1>>, <<n - 1, m, l - 1>> >>
Combine(n, m, l, vs) ==
  IF n = 0 THEN initial(l)
  ELSE IF n = m THEN sectorial(m, l, vs[1], vs[2])
  ELSE zonal(n, m, l, vs[1], vs[2], vs[3])

\* CachedCoAxialRecurrence::operator()(n, m, l) on a table whose cache is
\* cache: the value, the cache afterwards, and asked, the number of
\* requests it made of itself on the way.  tca_all makes the requests ts one
\* after the other.
RECURSIVE tca_call(_, _, _, _), tca_all(_, _)
tca_all(cache, ts) ==
  IF ts = <<>> THEN [vs |-> <<>>, cache |-> cache, asked |-> 0]
  ELSE CHOOSE out \in
         { CHOOSE out2 \in
             { [vs |-> <<h.v>> \o t.vs, cache |-> t.cache,
                asked |-> h.asked + t.asked + 1] :
                 t \in {tca_all(h.cache, Tail(ts))} } : TRUE :
             h \in {tca_call(cache, ts[1][1], ts[1][2], ts[1][3])} } : TRUE
tca_call(cache, n, m, l) ==
  IF OutOfRange(n, m, l) THEN ZeroTerm(cache, n, m, l)
  ELSE IF m < 0 THEN tca_call(cache, n, 0 - m, l)
  ELSE IF <<n, m, l>> \in DOMAIN cache
  THEN [v |-> cache[<<n, m, l>>], cache |-> cache, asked |-> 0]
  ELSE CHOOSE out \in
         { [v |-> Combine(n, m, l, d.vs),
            cache |-> Store(d.cache, n, m, l, Combine(n, m, l, d.vs)),
            asked |-> d.asked] :
             d \in {tca_all(cache, Dependencies(n, m, l))} } : TRUE

\* the triples a caller requests
Requests ==
  ((0 - 1)..MaxCoaxDeg) \X ((0 - MaxCoaxDeg - 1)..(MaxCoaxDeg + 1)) \X ((0 - 1)..MaxCoaxDeg)

\* tca(n, m, l)
TcaRequest(n, m, l) ==
  /\ tca.op = "table" /\ tca.count < MaxRequests
  /\ \E r \in {tca_call(tca.cache, n, m, l)} :
       tca' = [op |-> "table", cache |-> r.cache, count |-> tca.count + 1,
               last |-> [n |-> n, m |-> m, l |-> l, v |-> r.v, asked |-> r.asked]]
  /\ UNCHANGED <<solverVars, build, belosSolver, ctxValid, srcCoef, callVars, phase, lastOp,
                 fault, rangeCall, dist>>

\* CachedCoAxialRecurrence tca(R, waveK, regular)
InitTable ==
  /\ Construct({UniformGeom(0, 1)}, {"serial"}, OneProcess)
  /\ incWave.id = 1 /\ nMax = 1 /\ solverMethod = "indirect"
  /\ rangeCall = NoRangeCall /\ dist = NoDist
  /\ tca = [op |-> "table", cache |-> NoCache, count |-> 0,
            last |-> [n |-> 0, m |-> 0, l |-> 0, v |-> 0, asked |-> 0]]

NextTable == \E t \in Requests : TcaRequest(t[1], t[2], t[3])

SpecTable == InitTable /\ [][NextTable]_vars

(***************************************************************************)
(* Properties.                                                             *)
(***************************************************************************)
\* the solver holds a system assembled from a registry that meets the
\* assembly precondition
Assembled == phase \in {"Populated", "Solved"} /\ fault = "none" /\ SameDegree(geometry)

\* entry k of what comes in on object i: the local sources derived from the
\* internal coefficients of result res, or the excitation when res is null
Incoming(i, k, res) ==
  IF res # 0 THEN SourceLocalEntry(geometry, i, incWave, res, nMax, k)
  ELSE IncLocalEntry(incWave, geometry[i + 1].vR, nMax, k)

\* entry (r, c) of the 2x2-quadrant operator built from the coupling for the
\* displacement center_i - center_j: the diagonal coupling in the top-left
\* and bottom-right quadrants, the off-diagonal coupling in the top-right and
\* bottom-left ones, each as the code lays it out (transposed member)
Quadrants(i, j, r, c) ==
  LET f == flatMaxOf(nMax)
      d == geometry[i + 1].vR - geometry[j + 1].vR
  IN IF r < f
     THEN IF c < f THEN CouplingDiag(d, incWave.waveK, nMax, c, r)
          ELSE CouplingOff(d, incWave.waveK, nMax, c - f, r)
     ELSE IF c < f THEN CouplingOff(d, incWave.waveK, nMax, c, r - f)
          ELSE CouplingDiag(d, incWave.waveK, nMax, c - f, r - f)

\* entry (r, c) of the local operator of object i
TLocalOf(i, r, c) == TLocalEntry(geometry[i + 1], incWave.omega, bground, nMax, r, c)

\* the source vector for result res in the formulation the solver uses
SourceVectorFrom(res) ==
  LET w == 2 * flatMaxOf(nMax)
  IN Vec(w * Len(geometry),
         LAMBDA R : IF solverMethod = "indirect" THEN Incoming(R \div w, R % w, res)
                    ELSE SumTo(LAMBDA k : TLocalOf(R \div w, R % w, k)
                                            * Incoming(R \div w, k, res), w))

\* A has full rank
Regular(A) ==
  LET n == A.rows
      aug == [i \in 0..(n - 1) |-> [j \in 0..n |-> IF j < n THEN A.e[i][j] ELSE 0]]
  IN \E R \in {Reduce(aug, n, 0, 0)} : \A i \in 0..(n - 1) : LeadCol(R[i], n) < n

\* C1: every step of a solve call, in either overload, and every change of
\* the backend name, taken on a Populated or Solved solver, leaves S, Q, the
\* geometry, the excitation, nMax and the second-harmonic result pointer as
\* they were; hence consecutive solves all operate on the same (S, Q).
C1_SolveLeavesSystemUntouched ==
  [][(lastOp'.op \in {"solve", "solveComm", "setSolver"} /\ phase \in {"Populated", "Solved"})
       => /\ S' = S /\ Q' = Q
          /\ geometry' = geometry /\ incWave' = incWave /\ nMax' = nMax
          /\ result_FF' = result_FF]_vars

\* two solves of the same solver went through different backends, the name
\* having been changed in between
C1_Witness ==
  /\ phase = "Solved" /\ Len(geometry) >= 2
  /\ \E p, q \in Procs :
       /\ outcome[p] = "ok" /\ invoked[p] = << <<"scalapack", 0>> >>
       /\ outcome[q] = "ok" /\ invoked[q] = << <<"gmres", 0>> >>
       /\ X_sca[p] = X_sca[q]

\* C2: a step SH(r) with r different from the stored result pointer, taken
\* on a Populated or Solved solver, stores r, runs the assembler exactly
\* once, and leaves the solver Populated with the source vector built from
\* r's internal coefficients, or from the excitation when r is null.
C2_SHRepopulatesOnce ==
  [][(lastOp'.op = "SH" /\ Assembled)
       => /\ result_FF' = lastOp'.arg /\ result_FF' # result_FF
          /\ lastOp'.popRuns = 1 /\ lastOp'.err = "none"
          /\ phase' = "Populated"
          /\ Q' = SourceVectorFrom(result_FF')]_vars

\* SH has just stored a non-null result on a solver of several scatterers
C2_Witness ==
  /\ lastOp.op = "SH" /\ lastOp.arg # 0 /\ result_FF = lastOp.arg
  /\ phase = "Populated" /\ Len(geometry) >= 2
  /\ Q # SourceVectorFrom(0)

\* C3: a solver never holds a registry of two or more scatterers of unequal
\* degrees unless its assembly signalled the configuration error.
C3_MixedDegreesRejected ==
  (Len(geometry) >= 2 /\ ~SameDegree(geometry)) => phase = "Failed"

\* C4: an update or SH whose assembly fails with the configuration error
\* leaves S, Q and the geometry, excitation, degree and result fields as they
\* were, and a solver whose assembly failed returns no coefficients.
C4_FailedAssemblyBuildsNothing ==
  /\ [][(lastOp'.op \in {"update", "SH"} /\ lastOp'.err = "config")
          => UNCHANGED <<S, Q, geometry, incWave, nMax, result_FF>>]_vars
  /\ [](phase = "Failed" => \A p \in Procs : outcome[p] # "ok")

C6_BackendFailureIsFatal ==
  \A p \in Procs :
    (\E i \in 1..Len(invoked[p]) : invoked[p][i][2] # 0)
      => /\ outcome[p] = "backend_error"
         /\ Len(invoked[p]) = 1
         /\ invoked[p][1][1] # "eigen"
         /\ X_sca[p] = Unwritten /\ X_int[p] = Unwritten

\* a Krylov solve reported a failure
C6_Witness ==
  \E p \in Procs :
    /\ outcome[p] = "backend_error" /\ invoked[p] = << <<"gmres", 1>> >>
    /\ Len(geometry) >= 1

\* C7: with no scatterers the system is empty, assembly raises no error and
\* solve returns empty vectors; and the iterator-range assembler called with
\* an empty range returns the all-zero matrix of the degenerate size.
C7_EmptySystems ==
  /\ Len(geometry) = 0
       => /\ S = EmptyMat /\ Q = EmptyVec /\ phase # "Failed" /\ fault = "none"
          /\ \A p \in Procs :
               /\ outcome[p] \in {"none", "ok"}
               /\ outcome[p] = "ok" => X_sca[p] = EmptyVec /\ X_int[p] = EmptyVec
  /\ (rangeCall.op = "done"
      /\ (rangeCall.in.f0 = rangeCall.in.f1 \/ rangeCall.in.s0 = rangeCall.in.s1))
       => LET in == rangeCall.in
              w == IF Len(in.objs) = 0 THEN 0 ELSE 2 * flatMaxOf(in.objs[1].nMax)
          IN /\ ~rangeCall.crash
             /\ rangeCall.m = Mat(w * (in.f1 - in.f0), w * (in.s1 - in.s0),
                                  LAMBDA R, C : 0)

\* C8: direct formulation: S and Q have K blocks of size 2B; every diagonal
\* block of S is the identity, block (i, j), i # j, is -T_i * T_AB with T_AB
\* the quadrant operator for the displacement center_i - center_j, and block
\* row i of Q is T_i * incoming_i.
C8_DirectBlocks ==
  (solverMethod = "direct" /\ Assembled)
    => LET w == 2 * flatMaxOf(nMax)
           K == Len(geometry)
       IN /\ S.rows = K * w /\ S.cols = K * w /\ Q.n = K * w
          /\ \A i, j \in 0..(K - 1) : \A r, c \in 0..(w - 1) :
               S.e[i * w + r][j * w + c] =
                 IF i = j THEN (IF r = c THEN 1 ELSE 0)
                 ELSE Neg(SumTo(LAMBDA k : TLocalOf(i, r, k) * Quadrants(i, j, k, c), w))
          /\ \A i \in 0..(K - 1) : \A r \in 0..(w - 1) :
               Q.e[i * w + r] =
                 SumTo(LAMBDA k : TLocalOf(i, r, k) * Incoming(i, k, result_FF), w)

\* a direct system of several scatterers with second-harmonic sources
C8_Witness ==
  /\ solverMethod = "direct" /\ Assembled /\ Len(geometry) >= 2 /\ result_FF # 0
  /\ \E r, c \in 0..(2 * flatMaxOf(nMax) - 1) : S.e[r][2 * flatMaxOf(nMax) + c] # 0

\* C9: indirect formulation: every diagonal block of S is the identity and
\* is multiplied by no local operator; block (i, j), i # j, is the coupling
\* block C(i, j) multiplied on the right by the negated local operator of
\* the column scatterer j: C(i, j) * (-T_j).
C9_IndirectBlocksRight ==
  (solverMethod = "indirect" /\ Assembled)
    => LET w == 2 * flatMaxOf(nMax)
           K == Len(geometry)
       IN /\ S.rows = K * w /\ S.cols = K * w
          /\ \A i, j \in 0..(K - 1) : \A r, c \in 0..(w - 1) :
               S.e[i * w + r][j * w + c] =
                 IF i = j THEN (IF r = c THEN 1 ELSE 0)
                 ELSE SumTo(LAMBDA k : Quadrants(i, j, r, k) * Neg(TLocalOf(j, k, c)), w)

\* an indirect system of several scatterers
C9_Witness ==
  /\ solverMethod = "indirect" /\ Assembled /\ Len(geometry) >= 2
  /\ \E r, c \in 0..(2 * flatMaxOf(nMax) - 1) : S.e[r][2 * flatMaxOf(nMax) + c] # 0

\* C9 as stated: block (i, j), i # j, of the indirect S is the coupling
\* block multiplied on the left by the negated local operator of the column
\* scatterer: -T_j * C(i, j).
C9_IndirectBlocksLeft ==
  (solverMethod = "indirect" /\ Assembled)
    => LET w == 2 * flatMaxOf(nMax)
           K == Len(geometry)
       IN \A i, j \in 0..(K - 1) : \A r, c \in 0..(w - 1) :
            S.e[i * w + r][j * w + c] =
              IF i = j THEN (IF r = c THEN 1 ELSE 0)
              ELSE SumTo(LAMBDA k : Neg(TLocalOf(j, r, k)) * Quadrants(i, j, k, c), w)

\* C10: the coefficients a solve returned from a regular system are those
\* the other formulation gives for the same geometry, excitation, degree and
\* result: the direct solution equals the indirect solution with each block
\* multiplied by its scatterer's local operator, and the internal
\* coefficients agree.
C10_FormulationsAgree ==
  (phase = "Solved" /\ Assembled /\ outcome[1] = "ok" /\ Regular(S))
    => LET other == IF solverMethod = "direct" THEN "indirect" ELSE "direct"
       IN \E sys \in {populate(EmptyMat, EmptyVec, geometry, incWave, nMax, result_FF,
                               other, 0)} :
            \E r \in {solve(TRUE, build, belosSolver, 1, other, geometry, incWave, nMax,
                            sys.S, sys.Q, Unwritten, Unwritten, 0, 0)} :
              /\ sys.err = "none" /\ r.outcome = "ok"
              /\ X_sca[1] = r.X_sca /\ X_int[1] = r.X_int

\* a regular direct system of several scatterers was solved
C10_Witness ==
  /\ phase = "Solved" /\ Assembled /\ outcome[1] = "ok" /\ Len(geometry) >= 2
  /\ solverMethod = "direct" /\ Regular(S)
  /\ \E i \in 0..(X_sca[1].n - 1) : X_sca[1].e[i] # 0

\* the linear solve of process p has just run
LinearSolveRan(p) == invoked'[p] # invoked[p] /\ invoked'[p] # <<>>

\* C11 (as the code has it): every linear solve invokes exactly one backend.
\* In the Belos build the "Solver" entry alone decides it: an iterative name
\* gives the Krylov solver, "eigen" the single-process dense factorization,
\* and "scalapack" or no entry the distributed direct factorization, on one
\* process as on several.  In the MPI build without Belos it is the
\* distributed direct factorization on more than one process and the dense
\* factorization on one.  In the build without MPI it is always the dense
\* factorization.
C11_BackendPreference ==
  [][\A p \in Procs :
       LinearSolveRan(p) =>
         /\ Len(invoked'[p]) = 1
         /\ invoked'[p][1][1] =
              (IF build = "belos" /\ belosSolver \notin {"unset", "scalapack", "eigen"}
               THEN "gmres"
               ELSE IF \/ build = "serial"
                       \/ build = "belos" /\ belosSolver = "eigen"
                       \/ build = "mpi" /\ Cardinality(Procs) = 1
               THEN "eigen"
               ELSE "scalapack")]_vars

\* a single process of the Belos build, no solver name configured, has
\* solved: through the distributed direct factorization
C11_Witness ==
  /\ build = "belos" /\ belosSolver = "unset" /\ Cardinality(Procs) = 1
  /\ outcome[1] = "ok"
  /\ invoked[1] = << <<"scalapack", 0>> >>

\* C11 (as stated): the Krylov solver when an iterative name is configured;
\* the single-process dense factorization whenever no distributed backend is
\* configured or the grid is not engaged, a single process with no solver
\* name configured being such a case, and never otherwise; the distributed
\* direct factorization in what remains.
C11_PreferenceAsStated ==
  [][\A p \in Procs :
       LinearSolveRan(p) =>
         /\ Len(invoked'[p]) = 1
         /\ invoked'[p][1][1] =
              (IF build = "belos" /\ belosSolver \notin {"unset", "scalapack", "eigen"}
               THEN "gmres"
               ELSE IF \/ build = "serial"
                       \/ build = "belos" /\ belosSolver = "eigen"
                       \/ Cardinality(Procs) = 1 /\ belosSolver = "unset"
               THEN "eigen"
               ELSE "scalapack")]_vars

C14_RegistryReadOnly ==
  [][geometry' = geometry => srcCoef' = srcCoef]_vars

\* C15: in solve(X_sca_, X_int_, comm) no process is left waiting at a
\* broadcast that cannot complete: while a process waits at either
\* broadcast, no process of comm has left the same call with the backend's
\* error.
C15_NoneStranded ==
  \A p \in Procs, q \in Procs :
    pc[p] \in {"bcast_sca", "bcast_int"} => outcome[q] # "backend_error"

\* C16: a solver whose latest populate succeeded holds a square S of size
\* 2 * B * K and a Q of length 2 * B * K, for its K scatterers and
\* B = max_flat(nMax) - 1, in both formulations, and no block or segment the
\* assembler wrote lay outside them.
C16_SystemSized ==
  phase \in {"Populated", "Solved"}
    => /\ S.rows = 2 * flatMaxOf(nMax) * Len(geometry)
       /\ S.cols = 2 * flatMaxOf(nMax) * Len(geometry)
       /\ Q.n = 2 * flatMaxOf(nMax) * Len(geometry)
       /\ fault = "none"

\* C20: a solver whose calls succeeded holds the S and Q a fresh assembly
\* from its current geometry, excitation, degree, formulation and result
\* pointer produces; an update leaves the result pointer null, whatever it
\* was before; and SH called after an update with the pointer the update
\* discarded populates again and stores it.
C20_HeldIsFresh ==
  /\ []((phase \in {"Populated", "Solved"} /\ fault = "none")
          => \E gb \in GarbageIf(GarbageSurvives(geometry, nMax, solverMethod, 0)) :
               \E f \in {populate(EmptyMat, EmptyVec, geometry, incWave, nMax, result_FF,
                                  solverMethod, gb)} :
                 f.err = "none" /\ S = f.S /\ Q = f.Q)
  /\ [](lastOp.op = "update" => result_FF = 0)
  /\ [][(lastOp.op = "update" /\ lastOp.err = "none" /\ lastOp.arg # 0
         /\ lastOp'.op = "SH" /\ lastOp'.arg = lastOp.arg)
          => lastOp'.popRuns = 1 /\ result_FF' = lastOp.arg]_vars

\* an update has discarded a result pointer set by SH, on a solver of
\* several scatterers that now holds a first-harmonic system
C20_Witness ==
  /\ lastOp.op = "update" /\ lastOp.err = "none" /\ lastOp.arg # 0
  /\ result_FF = 0 /\ phase = "Populated" /\ fault = "none"
  /\ Len(geometry) >= 2 /\ Q = SourceVectorFrom(0)

\* every process has returned from the distributed assembler, called on a
\* registry that is not empty
DistReturned ==
  dist.op = "run" /\ DistK >= 1 /\ \A p \in DistProcs : dist.stage[p] = "done"

\* C13: for every registry of K >= 1 scatterers and every grid, the local
\* parts the processes return are, put together by the layout they were
\* asked for, the matrix the single-process indirect assembler gives for the
\* same registry, entry for entry; every cell was assigned within its
\* storage; and block (i, i) of the whole is the identity.
C13_PartitionInvariant ==
  DistReturned
    => \E M \in {GlobalOf(dist.final, DistK * DistW, DistK * DistW, dist.in.ctx,
                          dist.in.blocks.rows, dist.in.blocks.cols)} :
         /\ ~dist.ub
         /\ M = preconditioned_scattering_matrix_geometry(dist.in.objs, incWave).m
         /\ \A i \in 0..(DistK - 1) : \A r, c \in 0..(DistW - 1) :
              M.e[i * DistW + r][i * DistW + c] = IdEntry(r, c)

\* three processes have assembled eight scatterers: two each, and two
\* leftovers that end up on one process
C13_Witness ==
  /\ DistReturned /\ DistK = 8 /\ DistG = 3
  /\ dist.linear[0].cols = 4 * DistW /\ dist.linear[1].cols = 2 * DistW
  /\ dist.final[2].rows > 0

\* C19: with K >= 1 scatterers and P = min(grid size, K), process c < P
\* assembles the columns nloc*c .. nloc*(c+1)-1, nloc = K div P, and
\* process r < K mod P also the leftover column nloc*P + r; the other
\* processes assemble nothing.  So every column of the registry is assembled
\* by exactly one process, none lies outside the registry, the numbers of
\* columns two processes assemble differ by at most one, and the three
\* assertions hold on every process.
C19_AssignmentIsPartition ==
  (dist.op = "run" /\ DistK >= 1)
    => /\ dist.asserted /\ ~dist.ub
       /\ DistReturned
            => LET P == IF DistG < DistK THEN DistG ELSE DistK
                   nloc == DistK \div P
                   Cols(p) == { dist.built[p][i] : i \in 1..Len(dist.built[p]) }
               IN /\ \A p \in DistProcs :
                       Cols(p) = (IF p < P THEN (nloc * p)..(nloc * (p + 1) - 1) ELSE {})
                                   \cup (IF p < DistK % P THEN {nloc * P + p} ELSE {})
                  /\ \A k \in 0..(DistK - 1) :
                       Cardinality({ pi \in DistProcs \X (1..DistK) :
                                       /\ pi[2] <= Len(dist.built[pi[1]])
                                       /\ dist.built[pi[1]][pi[2]] = k }) = 1
                  /\ \A p \in DistProcs : Cols(p) \subseteq 0..(DistK - 1)
                  /\ \A p, q \in DistProcs :
                       Len(dist.built[p]) - Len(dist.built[q]) <= 1

\* three processes have assembled seven scatterers: two each, and the
\* leftover by the first
C19_Witness ==
  /\ DistReturned /\ DistK = 7 /\ DistG = 3
  /\ dist.built[0] = <<0, 1, 6>> /\ dist.built[2] = <<4, 5>>

\* the value the table returns now for <<n, m, l>>
TcaNow(n, m, l) == tca_call(tca.cache, n, m, l).v

\* C17: a request T(n, m, l) with n < 0, l < 0, |m| > n or |m| > l returns
\* exactly zero, makes no request for any other triple and leaves the cache
\* as it was.
C17_ZeroTermsFree ==
  [][(/\ tca.op = "table" /\ tca'.count = tca.count + 1
      /\ \/ tca'.last.n < 0 \/ tca'.last.l < 0
         \/ Abs(tca'.last.m) > tca'.last.n \/ Abs(tca'.last.m) > tca'.last.l)
       => /\ tca'.last.v = 0
          /\ tca'.last.asked = 0
          /\ tca'.cache = tca.cache]_vars

\* T(1, 0, -1) was requested of a table that had entries
C17_Witness ==
  /\ tca.op = "table" /\ tca.count >= 2
  /\ tca.last.n = 1 /\ tca.last.m = 0 /\ tca.last.l = 0 - 1
  /\ tca.last.v = 0 /\ tca.cache # NoCache

DependsOn(t) ==
  { d \in { Dependencies(t[1], t[2], t[3])[i] :
              i \in DOMAIN Dependencies(t[1], t[2], t[3]) } :
      ~OutOfRange(d[1], d[2], d[3]) }

\* ts and everything reached from it in at most k steps of DependsOn
RECURSIVE ChainWithin(_, _)
ChainWithin(ts, k) ==
  IF k = 0 THEN ts ELSE ChainWithin(ts \cup UNION { DependsOn(t) : t \in ts }, k - 1)

\* the triples a caller may ask for that are not zero by definition, with
\* the order m made non-negative
ValidTriples ==
  { <<t[1], Abs(t[2]), t[3]>> : t \in { r \in Requests : ~OutOfRange(r[1], r[2], r[3]) } }

\* for each such triple, what lies below it on its chain of dependencies
\* after MaxCoaxDeg steps
ChainBelow == [t \in ValidTriples |-> ChainWithin(DependsOn(t), MaxCoaxDeg)]

\* the triple of the latest request, with the order m made non-negative
LastTriple(t) == <<t.last.n, Abs(t.last.m), t.last.l>>

\* C21: for every request T(n, m, l) with |m| <= min(n, l), the chain of
\* dependencies below the triple is complete after finitely many steps, does
\* not contain the triple, and every triple on it is a seed or computed from
\* triples on it and zero terms; after the request the cache holds what it
\* held before, unchanged, plus exactly the triple and its chain, and the
\* value returned is the cached one; and a request for a triple that is
\* already cached returns the cached value, requests nothing and leaves the
\* cache as it was.
C21_MemoizedChain ==
  [][(/\ tca.op = "table" /\ tca'.count = tca.count + 1
      /\ ~OutOfRange(tca'.last.n, tca'.last.m, tca'.last.l))
       => \E t \in {LastTriple(tca')} : \E below \in {ChainBelow[t]} :
            /\ t \notin below
            /\ \A u \in below : DependsOn(u) \subseteq below /\ u[1] < t[1]
            /\ \A u \in below \cup {t} : Dependencies(u[1], u[2], u[3]) = <<>> <=> u[1] = 0
            /\ DOMAIN tca'.cache = DOMAIN tca.cache \cup below \cup {t}
            /\ \A u \in DOMAIN tca.cache : tca'.cache[u] = tca.cache[u]
            /\ tca'.last.v = tca'.cache[t]
            /\ tca'.last.asked >= Cardinality(below \ DOMAIN tca.cache)
            /\ t \in DOMAIN tca.cache
                 => /\ tca'.last.v = tca.cache[t]
                    /\ tca'.last.asked = 0
                    /\ tca'.cache = tca.cache]_vars

\* T(2, 1, 2) was requested a second time: the first request had entered it
\* and its chain down to the seeds at l = 1 and l = 3, the second returned
\* the same non-zero value without a request of its own
C21_Witness ==
  /\ tca.op = "table" /\ tca.count >= 2
  /\ tca.last.n = 2 /\ tca.last.m = 1 /\ tca.last.l = 2
  /\ tca.last.asked = 0 /\ tca.last.v # 0
  /\ tca.last.v = tca.cache[<<2, 1, 2>>]
  /\ {<<1, 1, 1>>, <<1, 1, 3>>, <<0, 0, 0>>, <<0, 0, 2>>, <<0, 0, 4>>} \subseteq DOMAIN tca.cache

====
